---- MODULE Spec2Model ----
(***************************************************************************)
(* The CMP Copilot workflow: the LangGraph state graph of core/agent.py,   *)
(* its nodes (agents/*.py), the per-field merge of agents/state.py and the *)
(* two inbound triggers of app/main.py, as a state machine.                *)
(*                                                                         *)
(* A state of the agent (AgentState, a Python dict) is a function whose    *)
(* DOMAIN is the set of keys that are present; a node's delta is such a    *)
(* function too.  Texts the code inspects character by character (the      *)
(* user query, report ids, VM names) are sequences of one-character        *)
(* strings.                                                                *)
(***************************************************************************)
EXTENDS Integers, Sequences, FiniteSets, TLC

VARIABLES
  store,     \* the checkpointer: thread id -> persisted AgentState
  files,     \* reports directory: host address -> content of <host>_report.html
  run,       \* the graph run in progress (or the last one): thread, pc, in-memory state
  last,      \* what the last engine tick did: node, delta, in-place appends, calls made
  runsLeft,  \* inbound triggers still to be accepted
  env,       \* the deployment: API key set, checkpoint saver behaviour, input sets
  inflight   \* graph runs suspended at an await inside a node while `run` is scheduled

vars == <<store, files, run, last, runsLeft, env, inflight>>

(***************************************************************************)
(* Bounds of the model.                                                    *)
(***************************************************************************)
MaxRuns == 2
MaxVMs == 2

(***************************************************************************)
(* Python str operations on sequences of characters.                       *)
(***************************************************************************)
UpperCase == <<"A", "B", "C", "D", "E", "F", "G", "H", "I", "J", "K", "L", "M", "N", "O", "P", "Q", "R", "S", "T", "U", "V", "W", "X", "Y", "Z">>
LowerCase == <<"a", "b", "c", "d", "e", "f", "g", "h", "i", "j", "k", "l", "m", "n", "o", "p", "q", "r", "s", "t", "u", "v", "w", "x", "y", "z">>

LowerChar(c) ==
  IF \E i \in 1..26 : UpperCase[i] = c
  THEN LowerCase[CHOOSE i \in 1..26 : UpperCase[i] = c]
  ELSE c

\* str.lower()
lower(s) == [i \in 1..Len(s) |-> LowerChar(s[i])]

\* needle in hay
contains(hay, needle) ==
  \E i \in 0..(Len(hay) - Len(needle)) : SubSeq(hay, i + 1, i + Len(needle)) = needle

\* str.startswith
startswith(s, p) == Len(s) >= Len(p) /\ SubSeq(s, 1, Len(p)) = p

SEND_EMAIL == <<"s", "e", "n", "d", " ", "e", "m", "a", "i", "l">>
KAFKA == <<"k", "a", "f", "k", "a">>

(***************************************************************************)
(* Inbound inputs (app/main.py).                                           *)
(***************************************************************************)
\* thread_id = "main_persistent_chat_session"
ChatThreadId == <<"m", "a", "i", "n", "_", "p", "e", "r", "s", "i", "s", "t", "e", "n", "t", "_", "c", "h", "a", "t", "_", "s", "e", "s", "s", "i", "o", "n">>

TextQuery(chars) == [kind |-> "text", text |-> chars]
CloningDirective(report_id) ==
  [kind |-> "dict", action |-> "initiate_cloning", report_id |-> report_id]

\* str(user_query): a str is itself, a dict is its repr
DictReprHead == <<"{", "'", "a", "c", "t", "i", "o", "n", "'", ":", " ", "'", "i", "n", "i", "t", "i", "a", "t", "e", "_", "c", "l", "o", "n", "i", "n", "g", "'", ",", " ", "'", "r", "e", "p", "o", "r", "t", "_", "i", "d", "'", ":", " ", "'">>
DictReprTail == <<"'", "}">>
str(q) ==
  IF q.kind = "text" THEN q.text
  ELSE DictReprHead \o q.report_id \o DictReprTail

isinstance_dict(q) == q.kind = "dict"

(***************************************************************************)
(* AgentState (agents/state.py): dict access and the per-field merge.      *)
(***************************************************************************)
Get(s, k, d) == IF k \in DOMAIN s THEN s[k] ELSE d

\* the channels annotated with a reducer: operator.add and add_messages
\* scan_results declared without operator.add
AppendChannels_LogsOnly == {"error_log", "messages"}

AppendChannels == {"scan_results", "error_log", "messages"}

add_messages(left, right) == left \o right

\* every channel overwritten, as a field without a reducer is
Reduce_Overwrite(k, left, right) == right

Reduce(k, left, right) ==
  IF k \in AppendChannels THEN add_messages(left, right) ELSE right

\* the graph applies a node's delta (or the input) to the channels
Merge(s, delta) ==
  [k \in (DOMAIN s) \cup (DOMAIN delta) |->
     IF k \in DOMAIN delta
     THEN IF k \in DOMAIN s THEN Reduce(k, s[k], delta[k]) ELSE delta[k]
     ELSE s[k]]

\* a thread without a checkpoint: the reducer channels start as empty lists
FreshState == [scan_results |-> <<>>, error_log |-> <<>>, messages |-> <<>>]

NoDelta == [k \in {} |-> <<>>]

Txt(tag, name, detail, n) ==
  [tag |-> tag, name |-> name, detail |-> detail, n |-> n, m |-> 0]
Txt2(tag, n, m) == [tag |-> tag, name |-> <<>>, detail |-> "", n |-> n, m |-> m]
NoText == Txt("", <<>>, "", 0)
\* Python truthiness of an optional text: None and "" are falsy
Truthy(text) == text.tag # ""

CloudCall(op, vm) == [op |-> op, vm |-> vm]
Msg(text) == <<"system", text>>

(***************************************************************************)
(* Routing functions (core/agent.py).                                      *)
(***************************************************************************)
\* entry_router_node comparing the text without lower()
entry_router_node_CaseSensitive(state) ==
  LET decision ==
        IF Get(state, "awaiting_acknowledgment", FALSE) = TRUE
        THEN IF contains(str(state["user_query"]), SEND_EMAIL)
             THEN "send_notification"
             ELSE "supervisor"
        ELSE IF isinstance_dict(state["user_query"])
                /\ state["user_query"].action = "initiate_cloning"
             THEN "start_cloning"
             ELSE "supervisor"
  IN [next_node |-> decision]

\* entry_router_node testing the directive before the flag
entry_router_node_DirectiveFirst(state) ==
  LET decision ==
        IF isinstance_dict(state["user_query"])
           /\ state["user_query"].action = "initiate_cloning"
        THEN "start_cloning"
        ELSE IF Get(state, "awaiting_acknowledgment", FALSE) = TRUE
                /\ contains(lower(str(state["user_query"])), SEND_EMAIL)
             THEN "send_notification"
             ELSE "supervisor"
  IN [next_node |-> decision]

entry_router_node(state) ==
  LET decision ==
        IF Get(state, "awaiting_acknowledgment", FALSE) = TRUE
        THEN IF contains(lower(str(state["user_query"])), SEND_EMAIL)
             THEN "send_notification"
             ELSE "supervisor"
        ELSE IF isinstance_dict(state["user_query"])
                /\ state["user_query"].action = "initiate_cloning"
             THEN "start_cloning"
             ELSE "supervisor"
  IN [next_node |-> decision]

route_from_entry(state) == Get(state, "next_node", "supervisor")

PlanAction(state) ==
  LET plan == Get(state, "plan", NoDelta)
  IN IF "action" \in DOMAIN plan THEN plan["action"] ELSE "None"

\* route_after_plan sending only security_scan on to discovery
route_after_plan_ScanOnly(state) ==
  IF PlanAction(state) = "security_scan" THEN "discover" ELSE "end"

route_after_plan(state) ==
  IF PlanAction(state) \in {"security_scan", "list_vms"} THEN "discover" ELSE "end"

\* route_after_discovery without the list_vms test
route_after_discovery_NoListTest(state) ==
  IF Get(state, "target_vms", <<>>) # <<>> THEN "execute" ELSE "analysis"

\* route_after_discovery answering with the node's name instead of the edge's key
route_after_discovery_NodeName(state) ==
  IF PlanAction(state) = "list_vms" THEN "end"
  ELSE IF Get(state, "target_vms", <<>>) # <<>> THEN "execution" ELSE "analysis"

route_after_discovery(state) ==
  IF PlanAction(state) = "list_vms" THEN "end"
  ELSE IF Get(state, "target_vms", <<>>) # <<>> THEN "execute" ELSE "analysis"

(***************************************************************************)
(* What a node returns to the engine: whether it raised, the delta it      *)
(* returned, the entries it appended in place to state['messages'], and    *)
(* the collaborator calls it made (listed: what list_vms returned).        *)
(***************************************************************************)
NoFx ==
  [llm |-> 0, emails |-> <<>>, scans |-> <<>>, cloud |-> <<>>,
   selected |-> <<>>, results |-> <<>>, written |-> [h \in {} |-> <<>>], listed |-> <<>>]

Returned(delta, inplace, fx) ==
  [raised |-> FALSE, delta |-> delta, inplace |-> inplace, fx |-> fx]

Raised(inplace, fx) ==
  [raised |-> TRUE, delta |-> NoDelta, inplace |-> inplace, fx |-> fx]

\* the outcomes of one llm.invoke_chat_completion call (core/llm.py): the content,
\* None (no choices), a text that is not JSON, or the exception re-raised after the retries
LLMOutcomes == {"ok", "empty", "malformed", "raise"}

\* get_llm_client(): raises ValueError without MISTRAL_API_KEY
get_llm_client_raises == ~env.apiKey

(***************************************************************************)
(* supervisor_node (agents/supervisor.py).  o.llm is the planner call's    *)
(* outcome and o.plan the JSON object it returned.                         *)
(***************************************************************************)
PlanActionText(plan) == IF "action" \in DOMAIN plan THEN plan["action"] ELSE "N/A"

supervisor_node(state, o) ==
  LET initial == Msg(Txt("Parsing user query to create a plan...", <<>>, "", 0))
      fx == [NoFx EXCEPT !.llm = 1]
  IN IF get_llm_client_raises THEN Raised(<<initial>>, NoFx)
     ELSE CASE o.llm = "empty" ->
                 Returned([error_log |-> <<Txt("Supervisor: LLM returned an empty plan.", <<>>, "", 0)>>],
                          <<initial>>, fx)
            [] o.llm = "malformed" ->
                 LET e == Txt("Supervisor: Failed to understand the plan from the AI. Please try rephrasing your query.", <<>>, "", 0)
                 IN Returned([error_log |-> <<e>>], <<initial, Msg(e)>>, fx)
            [] o.llm = "raise" ->
                 LET e == Txt("Supervisor: An unexpected error occurred:", <<>>, "llm error", 0)
                 IN Returned([error_log |-> <<e>>], <<initial, Msg(e)>>, fx)
            [] OTHER ->
                 Returned([plan |-> o.plan],
                          <<initial, Msg(Txt("Plan created successfully. Action:", <<>>, PlanActionText(o.plan), 0))>>,
                          fx)

(***************************************************************************)
(* discovery_node (agents/discovery.py).  o.inv is what OpenStackClient()  *)
(* and list_vms did: a connection error, another error, or the machines.   *)
(***************************************************************************)
\* the status filter letting every machine through
IsActive_AnyStatus(vm) == TRUE

IsActive(vm) == vm.status = "ACTIVE"

discovery_node(state, o) ==
  LET plan == Get(state, "plan", NoDelta)
  IN IF DOMAIN plan = {}
     THEN LET e == Txt("Discovery: No plan found in state. Cannot proceed.", <<>>, "", 0)
          IN Returned([error_log |-> <<e>>], <<Msg(e)>>, NoFx)
     ELSE
       LET filters == IF "filters" \in DOMAIN plan THEN plan["filters"] ELSE {}
           initial == IF filters # {}
                      THEN Msg(Txt("Searching for VMs with the following filters:", <<>>, "filters", 0))
                      ELSE Msg(Txt("Searching for all VMs...", <<>>, "", 0))
           called == [NoFx EXCEPT !.cloud = <<CloudCall("list_vms", "")>>]
       IN CASE o.inv.kind = "conn_error" ->
                 LET e == Txt("Discovery: Failed to connect to OpenStack. Please check credentials. Error:", <<>>, "connection", 0)
                 IN Returned([error_log |-> <<e>>], <<initial, Msg(e)>>, NoFx)
            [] o.inv.kind = "error" ->
                 LET e == Txt("Discovery: An unexpected error occurred:", <<>>, "list_vms", 0)
                 IN Returned([error_log |-> <<e>>], <<initial, Msg(e)>>, called)
            [] OTHER ->
                 LET vms == o.inv.vms
                     active_vms == SelectSeq(vms, IsActive)
                     fx == [called EXCEPT !.listed = vms]
                 IN IF vms = <<>>
                    THEN Returned([target_vms |-> <<>>],
                                  <<initial, Msg(Txt("No VMs found matching the criteria.", <<>>, "", 0))>>, fx)
                    ELSE IF active_vms = <<>>
                    THEN Returned([target_vms |-> <<>>],
                                  <<initial, Msg(Txt("Found VMs, but none are currently ACTIVE. No action will be taken.", <<>>, "", Len(vms)))>>, fx)
                    ELSE Returned([target_vms |-> active_vms],
                                  <<initial, Msg(Txt("Discovery complete. Found ACTIVE VMs to target.", <<>>, "", Len(active_vms)))>>, fx)

(***************************************************************************)
(* run_playbook (tools/ansible_executor.py) for one host.  oc is what the   *)
(* run did: "raise" (the temporary directory or the inventory file cannot  *)
(* be written: lines 22-38 are outside the try), "failed" (ansible's       *)
(* status is not successful, or ansible_runner raised: both are caught and *)
(* returned as failed), or "ran" (status successful), in which case the    *)
(* playbook fetched the report (oc.fetched, with oc.content) or did not.   *)
(***************************************************************************)
ReportPath(host) == <<"reports", host>>

NoContent == [readable |-> FALSE, vulns |-> <<>>]

ReportExists(host, oc, fs) == (oc.kind = "ran" /\ oc.fetched) \/ host \in DOMAIN fs

\* run_playbook without the os.path.exists check on the fetched report
run_playbook_NoExistsCheck(host, oc, fs) ==
  IF oc.kind = "failed"
  THEN [status |-> "failed", error |-> "Ansible run failed with status: failed"]
  ELSE IF ReportExists(host, oc, fs)
       THEN [status |-> "successful", report_path |-> ReportPath(host)]
       ELSE [status |-> "successful"]

run_playbook(host, oc, fs) ==
  IF oc.kind = "failed"
  THEN [status |-> "failed", error |-> "Ansible run failed with status: failed"]
  ELSE IF ReportExists(host, oc, fs)
       THEN [status |-> "successful", report_path |-> ReportPath(host)]
       ELSE [status |-> "failed", error |-> "Report file not fetched by playbook."]

(***************************************************************************)
(* _run_scan_on_vm and execution_node (agents/execution.py).               *)
(*   o.playbookExists  os.path.exists(playbook_path)                       *)
(*   o.scan[i]         what run_playbook did for the i-th selected target  *)
(*   o.order           the order in which the scanning units finish        *)
(***************************************************************************)
\* the name filter without .lower()
IsKafka_CaseSensitive(vm) == startswith(vm.name, KAFKA)

IsKafka(vm) == startswith(lower(vm.name), KAFKA)

\* the address test of _run_scan_on_vm letting every target through
HasAddress_Always(vm) == TRUE

HasAddress(vm) == vm.ip_address # ""

\* _run_scan_on_vm naming its result by the scanned address instead of the target's name
run_scan_on_vm_NamedByAddress(vm, oc, fs) ==
  IF ~HasAddress(vm)
  THEN [vm_name |-> vm.name, status |-> "skipped", error |-> "No IP address"]
  ELSE ("vm_name" :> <<vm.ip_address>>) @@ run_playbook(vm.ip_address, oc, fs)

run_scan_on_vm(vm, oc, fs) ==
  IF ~HasAddress(vm)
  THEN [vm_name |-> vm.name, status |-> "skipped", error |-> "No IP address"]
  ELSE ("vm_name" :> vm.name) @@ run_playbook(vm.ip_address, oc, fs)

IsSuccessfulReport(res) ==
  Get(res, "status", "None") = "successful" /\ Get(res, "report_path", <<>>) # <<>>

IsNotSuccessful(res) == Get(res, "status", "None") # "successful"

ScanError(res) ==
  Txt("Scan failed on", res["vm_name"], Get(res, "error", "Unknown error"), 0)

\* the units awaited one after the other: each finishes before the next starts
gather_OneByOne(started, finished) ==
  LET n == IF Len(started) < Len(finished) THEN Len(started) ELSE Len(finished)
      Z[k \in 0..n] == IF k = 0 THEN <<>> ELSE Z[k - 1] \o <<started[k], finished[k]>>
  IN Z[n] \o SubSeq(started, n + 1, Len(started)) \o SubSeq(finished, n + 1, Len(finished))

\* asyncio.gather over _run_scan_on_vm: every unit runs to its run_in_executor
\* await (all start entries, in target order) before any worker's result is
\* taken up again (the completion entries, in the order the workers finish)
gather(started, finished) == started \o finished

execution_node(state, o, fs) ==
  LET all_vms == Get(state, "target_vms", <<>>)
      plan == Get(state, "plan", NoDelta)
      playbook_name == Get(plan, "playbook", "None")
      target_vms == SelectSeq(all_vms, IsKafka)
      n == Len(target_vms)
      scanning == {i \in 1..n : HasAddress(target_vms[i])}
      fx0 == [NoFx EXCEPT !.selected = target_vms]
  IN IF target_vms = <<>>
     THEN Returned(NoDelta,
                   <<Msg(Txt("No 'kafka' VMs found to scan. Skipping execution step.", <<>>, "", 0))>>, fx0)
     ELSE IF playbook_name \in {"None", ""}
     THEN Returned([error_log |-> <<Txt("Execution: No playbook specified.", <<>>, "", 0)>>],
                   <<Msg(Txt("Error: No playbook specified in the plan.", <<>>, "", 0))>>, fx0)
     ELSE IF ~o.playbookExists
     THEN LET e == Txt("Execution: Could not find playbook. Error:", <<>>, playbook_name, 0)
          IN Returned([error_log |-> <<e>>], <<Msg(e)>>, fx0)
     ELSE
       LET initial == Msg(Txt("Beginning security scans on VMs. This may take some time...", <<>>, "", n))
           starts == [i \in 1..n |->
                        IF i \in scanning
                        THEN <<Msg(Txt("Starting OVAL scan on", target_vms[i].name, target_vms[i].ip_address, 0))>>
                        ELSE <<>>]
           scan_outcomes == [i \in 1..n |-> run_scan_on_vm(target_vms[i], o.scan[i], fs)]
           ends == [k \in 1..Len(o.order) |->
                      Msg(Txt("Scan completed for. Status:", target_vms[o.order[k]].name,
                              scan_outcomes[o.order[k]]["status"], 0))]
           written == [h \in {target_vms[i].ip_address :
                                i \in {j \in scanning : o.scan[j].kind = "ran" /\ o.scan[j].fetched}} |->
                         LET i == CHOOSE j \in scanning : target_vms[j].ip_address = h
                         IN o.scan[i].content]
           calls == [i \in 1..n |-> IF i \in scanning THEN <<target_vms[i].ip_address>> ELSE <<>>]
           Flat[k \in 0..n] == IF k = 0 THEN <<>> ELSE Flat[k - 1] \o starts[k]
           Calls[k \in 0..n] == IF k = 0 THEN <<>> ELSE Calls[k - 1] \o calls[k]
           fx == [fx0 EXCEPT !.scans = Calls[n], !.written = written]
           successful_reports == SelectSeq(scan_outcomes, IsSuccessfulReport)
           failures == SelectSeq(scan_outcomes, IsNotSuccessful)
           errors == [k \in 1..Len(failures) |-> ScanError(failures[k])]
           final == Msg(Txt2("All scans complete. Successful reports / Failures:",
                             Len(successful_reports), Len(errors)))
       IN IF \E i \in scanning : o.scan[i].kind = "raise"
          \* asyncio.gather without return_exceptions: the first exception propagates
          THEN Raised(<<initial>> \o Flat[n], fx)
          ELSE Returned([scan_results |-> successful_reports, error_log |-> errors],
                        <<initial>> \o gather(Flat[n], ends) \o <<final>>,
                        [fx EXCEPT !.results = scan_outcomes])

(***************************************************************************)
(* Prompt templates (prompts/system_prompts.py), by the placeholders that  *)
(* str.format must be given: a placeholder without an argument raises      *)
(* KeyError.                                                               *)
(***************************************************************************)
AGGREGATE_ANALYSIS_PROMPT == {"scan_results_json"}
EMAIL_SUBJECT_PROMPT == {"summary_text"}
\* the body template asking for the summary only
EMAIL_BODY_PROMPT_SummaryOnly == {"json_summary"}
EMAIL_BODY_PROMPT == {"json_summary", "acknowledgment_link"}
UI_SUMMARY_PROMPT == {"json_summary"}

\* str.format that leaves an unfilled placeholder in the text instead of raising
format_raises_Never(prompt, kwargs) == FALSE

format_raises(prompt, kwargs) == ~(prompt \subseteq kwargs)

(***************************************************************************)
(* analysis_node (agents/analysis.py).                                     *)
(*   o.csvOk       the CSV summary could be written                        *)
(*   o.llm1..llm4  the outcomes of the four summarizer calls               *)
(*   o.cfg         what load_yaml_config(...) gave: "recipients", "empty"  *)
(*                 (no manager_recipients) or "none" (an empty YAML file)  *)
(*   o.sent        send_email's return value                               *)
(***************************************************************************)
NoReportsMessage == Txt("No scan reports were generated. Skipping analysis.", <<>>, "", 0)
NoCriticalMessage == Txt("Analysis complete. No critical vulnerabilities found in any of the reports.", <<>>, "", 0)
AnalysisErrorTag == "Analysis: An unexpected error occurred during LLM summary/notification:"

\* open(report_path) and _extract_vulnerabilities_from_html: the findings, or
\* unreadable (the file is missing or cannot be decoded)
ReadReport(res, fs) ==
  LET host == res["report_path"][2]
  IN IF host \in DOMAIN fs /\ fs[host].readable
     THEN [ok |-> TRUE, vulns |-> fs[host].vulns]
     ELSE [ok |-> FALSE, vulns |-> <<>>]

Titles(vulns) == [i \in 1..Len(vulns) |-> vulns[i].title]

\* all_vulnerabilities filled for every report read, without `if vulnerabilities:`
AllVulnerabilities_KeepEmpty(scan_results, fs) ==
  [nm \in {scan_results[i]["vm_name"] : i \in 1..Len(scan_results)} |->
     LET i == CHOOSE j \in 1..Len(scan_results) :
                /\ scan_results[j]["vm_name"] = nm
                /\ \A k \in 1..Len(scan_results) : scan_results[k]["vm_name"] = nm => k <= j
     IN Titles(ReadReport(scan_results[i], fs).vulns)]

\* all_vulnerabilities: vm_name -> titles, the last report with findings winning
AllVulnerabilities(scan_results, fs) ==
  LET withFindings == {i \in 1..Len(scan_results) : ReadReport(scan_results[i], fs).vulns # <<>>}
  IN [nm \in {scan_results[i]["vm_name"] : i \in withFindings} |->
        LET i == CHOOSE j \in withFindings :
                   /\ scan_results[j]["vm_name"] = nm
                   /\ \A k \in withFindings : scan_results[k]["vm_name"] = nm => k <= j
        IN Titles(ReadReport(scan_results[i], fs).vulns)]

ReadErrors(scan_results, fs) ==
  LET F[k \in 0..Len(scan_results)] ==
        IF k = 0 THEN <<>>
        ELSE F[k - 1] \o
             (IF ReadReport(scan_results[k], fs).ok THEN <<>>
              ELSE <<Msg(Txt("Error reading report for", scan_results[k]["vm_name"], "", 0))>>)
  IN F[Len(scan_results)]

CsvRows(scan_results, fs) ==
  LET F[k \in 0..Len(scan_results)] ==
        IF k = 0 THEN 0 ELSE F[k - 1] + Len(ReadReport(scan_results[k], fs).vulns)
  IN F[Len(scan_results)]

\* an except branch that also hands back what was drafted before the failure
analysis_except_ExposesPartial(messages_to_return, reason, calls) ==
  LET e == Txt(AnalysisErrorTag, <<>>, reason, 0)
  IN Returned([error_log |-> <<e>>, final_summary |-> Txt("ui summary", <<>>, "partial", 0),
               email_sent |-> FALSE, messages |-> messages_to_return \o <<Msg(e)>>], <<>>,
              [NoFx EXCEPT !.llm = calls])

\* an except branch that parks the session for approval
analysis_except_Parks(messages_to_return, reason, calls) ==
  LET e == Txt(AnalysisErrorTag, <<>>, reason, 0)
  IN Returned([awaiting_acknowledgment |-> TRUE, error_log |-> <<e>>,
               messages |-> messages_to_return \o <<Msg(e)>>], <<>>,
              [NoFx EXCEPT !.llm = calls])

\* an except branch that retains a machine for the cloning phase
analysis_except_RetainsTargets(messages_to_return, reason, calls) ==
  LET e == Txt(AnalysisErrorTag, <<>>, reason, 0)
  IN Returned([vulnerable_vms |-> <<[id |-> "vm-k1", name |-> <<"k", "a", "f", "k", "a", "-", "1">>]>>,
               report_id |-> <<"r", "1">>, error_log |-> <<e>>,
               messages |-> messages_to_return \o <<Msg(e)>>], <<>>,
              [NoFx EXCEPT !.llm = calls])

\* the except branch of analysis_node: one error entry, the entries collected so
\* far and the error text; calls is the number of summarizer calls already made
analysis_except(messages_to_return, reason, calls) ==
  LET e == Txt(AnalysisErrorTag, <<>>, reason, 0)
  IN Returned([error_log |-> <<e>>, messages |-> messages_to_return \o <<Msg(e)>>], <<>>,
              [NoFx EXCEPT !.llm = calls])

analysis_node(state, o, fs) ==
  LET scan_results == Get(state, "scan_results", <<>>)
  IN IF scan_results = <<>>
     THEN Returned([final_summary |-> NoReportsMessage, messages |-> <<Msg(NoReportsMessage)>>], <<>>, NoFx)
     ELSE IF get_llm_client_raises
     THEN Raised(<<>>, NoFx)
     ELSE
       LET m0 == <<Msg(Txt("Analyzing scan reports...", <<>>, "", Len(scan_results)))>>
                 \o ReadErrors(scan_results, fs)
           all_vulnerabilities == AllVulnerabilities(scan_results, fs)
       IN IF DOMAIN all_vulnerabilities = {}
          THEN Returned([final_summary |-> NoCriticalMessage,
                         messages |-> m0 \o <<Msg(NoCriticalMessage)>>], <<>>, NoFx)
          ELSE
            LET csv_report_path == <<"reports", "vulnerability_summary.csv">>
                m1 == m0 \o <<IF o.csvOk
                              THEN Msg(Txt("Vulnerability summary saved to:", <<>>, "vulnerability_summary.csv",
                                           CsvRows(scan_results, fs)))
                              ELSE Msg(Txt("Failed to create CSV report:", <<>>, "", 0))>>
                Fail(reason, calls) == analysis_except(m1, reason, calls)
                email_subject == Txt("subject", <<>>, o.llm4, 0)
                email_body == Txt("body", <<>>, o.llm2, 0)
                ui_summary == Txt("ui summary", <<>>, o.llm3, 0)
            IN IF format_raises(AGGREGATE_ANALYSIS_PROMPT, {"scan_results_json"}) THEN Fail("KeyError", 0)
               ELSE IF o.llm1 = "raise" THEN Fail("llm error", 1)
               ELSE IF o.llm1 = "empty" THEN Fail("TypeError", 1)
               ELSE IF o.llm1 = "malformed" THEN Fail("JSONDecodeError", 1)
               ELSE IF format_raises(EMAIL_BODY_PROMPT, {"json_summary"}) THEN Fail("KeyError: acknowledgment_link", 1)
               ELSE IF o.llm2 = "raise" THEN Fail("llm error", 2)
               ELSE IF format_raises(UI_SUMMARY_PROMPT, {"json_summary"}) THEN Fail("KeyError", 2)
               ELSE IF o.llm3 = "raise" THEN Fail("llm error", 3)
               ELSE IF format_raises(EMAIL_SUBJECT_PROMPT, {"summary_text"}) THEN Fail("KeyError", 3)
               ELSE IF o.llm4 = "raise" THEN Fail("llm error", 4)
               ELSE IF o.cfg = "none" THEN Fail("AttributeError", 4)
               ELSE IF o.cfg = "recipients"
               THEN Returned([final_summary |-> ui_summary, email_sent |-> TRUE,
                              messages |-> m1 \o <<Msg(Txt("Sending notification email to:", <<>>, "recipients", 0))>>],
                             <<>>,
                             [NoFx EXCEPT !.llm = 4,
                                          !.emails = <<[subject |-> email_subject, body |-> email_body,
                                                        attachment |-> csv_report_path, delivered |-> o.sent]>>])
               ELSE Returned([final_summary |-> ui_summary, email_sent |-> FALSE, messages |-> m1],
                             <<>>, [NoFx EXCEPT !.llm = 4])

(***************************************************************************)
(* notification_node (core/agent.py).  o.cfg and o.sent as for analysis.   *)
(***************************************************************************)
\* notification_node recording what send_email returned as the sent flag
notification_node_SentFromTransport(state, o) ==
  LET subject == Get(state, "draft_email_subject", NoText)
      body == Get(state, "draft_email_body", NoText)
      attachment_path == Get(state, "draft_attachment_path", <<>>)
  IN IF ~(Truthy(subject) /\ Truthy(body))
     THEN LET e == Txt("Notification Error: Draft email subject or body not found in state.", <<>>, "", 0)
          IN Returned([error_log |-> <<e>>, messages |-> <<Msg(e)>>], <<>>, NoFx)
     ELSE IF o.cfg = "none"
     THEN LET e == Txt("Failed to send notification email. Error:", <<>>, "AttributeError", 0)
          IN Returned([error_log |-> <<e>>, messages |-> <<Msg(e)>>], <<>>, NoFx)
     ELSE IF o.cfg = "recipients"
     THEN Returned([awaiting_acknowledgment |-> FALSE, email_sent |-> o.sent,
                    messages |-> <<Msg(Txt("Approval received. Sending notification to:", <<>>, "recipients", 0))>>],
                   <<>>,
                   [NoFx EXCEPT !.emails = <<[subject |-> subject, body |-> body,
                                              attachment |-> attachment_path, delivered |-> o.sent]>>])
     ELSE Returned([awaiting_acknowledgment |-> FALSE, email_sent |-> FALSE,
                    messages |-> <<Msg(Txt("No recipients found in config. Skipping email.", <<>>, "", 0))>>],
                   <<>>, NoFx)

\* a notification step that drops the draft it sent and leaves the session parked
notification_node_DropsDraftStaysParked(state, o) ==
  Returned([draft_email_subject |-> NoText, draft_email_body |-> NoText,
            messages |-> <<Msg(Txt("Approval received. Sending notification to:", <<>>, "recipients", 0))>>],
           <<>>, NoFx)

\* a notification step that clears the flags before it looks for the draft
notification_node_ClearsFlagsFirst(state, o) ==
  LET subject == Get(state, "draft_email_subject", NoText)
      body == Get(state, "draft_email_body", NoText)
      attachment_path == Get(state, "draft_attachment_path", <<>>)
  IN IF ~(Truthy(subject) /\ Truthy(body))
     THEN LET e == Txt("Notification Error: Draft email subject or body not found in state.", <<>>, "", 0)
          IN Returned([awaiting_acknowledgment |-> FALSE, email_sent |-> FALSE,
                       error_log |-> <<e>>, messages |-> <<Msg(e)>>], <<>>, NoFx)
     ELSE IF o.cfg = "none"
     THEN LET e == Txt("Failed to send notification email. Error:", <<>>, "AttributeError", 0)
          IN Returned([error_log |-> <<e>>, messages |-> <<Msg(e)>>], <<>>, NoFx)
     ELSE IF o.cfg = "recipients"
     THEN Returned([awaiting_acknowledgment |-> FALSE, email_sent |-> TRUE,
                    messages |-> <<Msg(Txt("Approval received. Sending notification to:", <<>>, "recipients", 0))>>],
                   <<>>,
                   [NoFx EXCEPT !.emails = <<[subject |-> subject, body |-> body,
                                              attachment |-> attachment_path, delivered |-> o.sent]>>])
     ELSE Returned([awaiting_acknowledgment |-> FALSE, email_sent |-> FALSE,
                    messages |-> <<Msg(Txt("No recipients found in config. Skipping email.", <<>>, "", 0))>>],
                   <<>>, NoFx)

\* a notification step that treats a False from send_email as a failure
notification_node_FailsOnUndelivered(state, o) ==
  LET subject == Get(state, "draft_email_subject", NoText)
      body == Get(state, "draft_email_body", NoText)
      attachment_path == Get(state, "draft_attachment_path", <<>>)
      sending == Msg(Txt("Approval received. Sending notification to:", <<>>, "recipients", 0))
      call == [NoFx EXCEPT !.emails = <<[subject |-> subject, body |-> body,
                                         attachment |-> attachment_path, delivered |-> o.sent]>>]
  IN IF ~(Truthy(subject) /\ Truthy(body))
     THEN LET e == Txt("Notification Error: Draft email subject or body not found in state.", <<>>, "", 0)
          IN Returned([error_log |-> <<e>>, messages |-> <<Msg(e)>>], <<>>, NoFx)
     ELSE IF o.cfg = "none"
     THEN LET e == Txt("Failed to send notification email. Error:", <<>>, "AttributeError", 0)
          IN Returned([error_log |-> <<e>>, messages |-> <<Msg(e)>>], <<>>, NoFx)
     ELSE IF o.cfg = "recipients" /\ ~o.sent
     THEN LET e == Txt("Failed to send notification email. Error:", <<>>, "not delivered", 0)
          IN Returned([error_log |-> <<e>>, messages |-> <<sending, Msg(e)>>], <<>>, call)
     ELSE IF o.cfg = "recipients"
     THEN Returned([awaiting_acknowledgment |-> FALSE, email_sent |-> TRUE, messages |-> <<sending>>],
                   <<>>, call)
     ELSE Returned([awaiting_acknowledgment |-> FALSE, email_sent |-> FALSE,
                    messages |-> <<Msg(Txt("No recipients found in config. Skipping email.", <<>>, "", 0))>>],
                   <<>>, NoFx)

notification_node(state, o) ==
  LET subject == Get(state, "draft_email_subject", NoText)
      body == Get(state, "draft_email_body", NoText)
      attachment_path == Get(state, "draft_attachment_path", <<>>)
  IN IF ~(Truthy(subject) /\ Truthy(body))
     THEN LET e == Txt("Notification Error: Draft email subject or body not found in state.", <<>>, "", 0)
          IN Returned([error_log |-> <<e>>, messages |-> <<Msg(e)>>], <<>>, NoFx)
     ELSE IF o.cfg = "none"
     THEN LET e == Txt("Failed to send notification email. Error:", <<>>, "AttributeError", 0)
          IN Returned([error_log |-> <<e>>, messages |-> <<Msg(e)>>], <<>>, NoFx)
     ELSE IF o.cfg = "recipients"
     THEN Returned([awaiting_acknowledgment |-> FALSE, email_sent |-> TRUE,
                    messages |-> <<Msg(Txt("Approval received. Sending notification to:", <<>>, "recipients", 0))>>],
                   <<>>,
                   [NoFx EXCEPT !.emails = <<[subject |-> subject, body |-> body,
                                              attachment |-> attachment_path, delivered |-> o.sent]>>])
     ELSE Returned([awaiting_acknowledgment |-> FALSE, email_sent |-> FALSE,
                    messages |-> <<Msg(Txt("No recipients found in config. Skipping email.", <<>>, "", 0))>>],
                   <<>>, NoFx)

(***************************************************************************)
(* cloning_node (core/agent.py).                                           *)
(*   o.client   OpenStackClient(): "ok" or "conn_error"                    *)
(*   o.cfg      load_yaml_config(cloning_config.yaml): "dict" or "none"    *)
(*   o.net      create_isolated_network: "ok" or "fail"                    *)
(*   o.clone[i] the i-th target: "ok", "snapshot_fail" or "launch_fail"    *)
(* clone_vm awaits nothing, so the units run one after the other.          *)
(***************************************************************************)
\* the ids the cloud returns (image.id, network.id), and no id for a call that raised
NoId == [none |-> TRUE]
SnapshotId(vm) == [image |-> vm.id]
NetworkId(network_name) == [network |-> network_name]
\* the three cloning calls with what they returned or were given
NetworkCall(returned) == [op |-> "create_isolated_network", vm |-> "", returned |-> returned]
SnapshotCall(vm, returned) == [op |-> "create_vm_snapshot", vm |-> vm.id, returned |-> returned]
LaunchCall(vm, snapshot_id, network_id) ==
  [op |-> "create_vm_from_snapshot", vm |-> vm.id, snapshot |-> snapshot_id, network |-> network_id]

Prefix8(s) == SubSeq(s, 1, IF Len(s) < 8 THEN Len(s) ELSE 8)

\* clone_vm with an except branch that appends nothing
CloneMessages_FailureSilent(vm, oc) ==
  LET creating == Msg(Txt("Creating snapshot for", vm.name, "", 0))
  IN IF oc = "snapshot_fail" THEN <<creating>>
     ELSE <<creating, Msg(Txt("Snapshot created for", vm.name, "", 0)),
            Msg(Txt("Launching clone in isolated network of", vm.name, "", 0))>>
          \o (IF oc = "launch_fail" THEN <<>>
              ELSE <<Msg(Txt("Clone launched successfully of", vm.name, "", 0))>>)

CloneMessages(vm, oc) ==
  LET creating == Msg(Txt("Creating snapshot for", vm.name, "", 0))
      failed == Msg(Txt("Failed to clone. Error:", vm.name, oc, 0))
  IN IF oc = "snapshot_fail" THEN <<creating, failed>>
     ELSE <<creating, Msg(Txt("Snapshot created for", vm.name, "", 0)),
            Msg(Txt("Launching clone in isolated network of", vm.name, "", 0)),
            IF oc = "launch_fail" THEN failed
            ELSE Msg(Txt("Clone launched successfully of", vm.name, "", 0))>>

\* clone_vm with the network call made inside every unit
CloneCalls_NetworkPerTarget(vm, oc, network_id) ==
  <<NetworkCall(network_id)>> \o
    (IF oc = "snapshot_fail" THEN <<SnapshotCall(vm, NoId)>>
     ELSE <<SnapshotCall(vm, SnapshotId(vm)), LaunchCall(vm, SnapshotId(vm), network_id)>>)

\* clone_vm launching from the snapshot call's result whether or not it succeeded
CloneCalls_LaunchRegardless(vm, oc, network_id) ==
  IF oc = "snapshot_fail" THEN <<SnapshotCall(vm, NoId), LaunchCall(vm, NoId, network_id)>>
  ELSE <<SnapshotCall(vm, SnapshotId(vm)), LaunchCall(vm, SnapshotId(vm), network_id)>>

CloneCalls(vm, oc, network_id) ==
  IF oc = "snapshot_fail" THEN <<SnapshotCall(vm, NoId)>>
  ELSE <<SnapshotCall(vm, SnapshotId(vm)), LaunchCall(vm, SnapshotId(vm), network_id)>>

cloning_node(state, o) ==
  LET vms_to_clone == Get(state, "vulnerable_vms", <<>>)
      Critical(msgs, reason, calls) ==
        LET e == Txt("A critical error occurred during the cloning process:", <<>>, reason, 0)
        IN Returned([error_log |-> <<e>>, messages |-> msgs \o <<Msg(e)>>], <<>>,
                    [NoFx EXCEPT !.cloud = calls])
  IN IF vms_to_clone = <<>>
     THEN LET e == Txt("Cloning Error: List of vulnerable VMs not found in state.", <<>>, "", 0)
          IN Returned([error_log |-> <<e>>, messages |-> <<Msg(e)>>], <<>>, NoFx)
     ELSE IF o.client = "conn_error" THEN Critical(<<>>, "ConnectionError", <<>>)
     ELSE IF o.cfg = "none" THEN Critical(<<>>, "AttributeError", <<>>)
     ELSE
       LET n == Len(vms_to_clone)
           network_name == Prefix8(Get(state, "report_id", <<>>))
           m1 == <<Msg(Txt("Creating isolated network:", network_name, "", 0))>>
           network_id == IF o.net = "fail" THEN NoId ELSE NetworkId(network_name)
           net == <<NetworkCall(network_id)>>
           M[k \in 0..n] == IF k = 0 THEN <<>> ELSE M[k - 1] \o CloneMessages(vms_to_clone[k], o.clone[k])
           C[k \in 0..n] == IF k = 0 THEN <<>> ELSE C[k - 1] \o CloneCalls(vms_to_clone[k], o.clone[k], network_id)
           final_message == Txt("Forensic cloning process complete.", <<>>, "", 0)
       IN IF o.net = "fail" THEN Critical(m1, "network", net)
          ELSE Returned([final_summary |-> final_message,
                         messages |-> m1 \o <<Msg(Txt("Network created successfully:", network_name, "", 0))>>
                                        \o M[n] \o <<Msg(final_message)>>],
                        <<>>, [NoFx EXCEPT !.cloud = net \o C[n]])

(***************************************************************************)
(* The graph (create_agent_graph): nodes, conditional edges, fixed edges.  *)
(***************************************************************************)
Nodes == {"entry_router", "supervisor", "discovery", "execution", "analysis", "notification", "cloning"}

\* the conditional edges of entry_router with send_notification wired to the planner
EntryEdges_NotificationToPlan ==
  [supervisor |-> "supervisor", send_notification |-> "supervisor", start_cloning |-> "cloning"]

EntryEdges == [supervisor |-> "supervisor", send_notification |-> "notification", start_cloning |-> "cloning"]
PlanEdges == [discover |-> "discovery", end |-> "END"]
DiscoveryEdges == [execute |-> "execution", analysis |-> "analysis", end |-> "END"]

Follow(edges, key) == IF key \in DOMAIN edges THEN edges[key] ELSE "FAILED"

\* the next node after `node`, decided on the merged state
NextNode(node, state) ==
  CASE node = "entry_router" -> Follow(EntryEdges, route_from_entry(state))
    [] node = "supervisor" -> Follow(PlanEdges, route_after_plan(state))
    [] node = "discovery" -> Follow(DiscoveryEdges, route_after_discovery(state))
    [] node = "execution" -> "analysis"
    [] OTHER -> "END"

(***************************************************************************)
(* The inputs the environment may supply.  env.rich selects the input sets *)
(* of a behaviour: the full sets (a single run, from any checkpoint), or   *)
(* the small ones (several runs on one store).                             *)
(***************************************************************************)
K1 == [id |-> "vm-k1", name |-> <<"k", "a", "f", "k", "a", "-", "1">>, ip_address |-> "10.0.0.1", status |-> "ACTIVE"]
K2 == [id |-> "vm-k2", name |-> <<"K", "a", "f", "k", "a", "-", "2">>, ip_address |-> "10.0.0.2", status |-> "ACTIVE"]
N3 == [id |-> "vm-k3", name |-> <<"k", "a", "f", "k", "a", "-", "3">>, ip_address |-> "", status |-> "ACTIVE"]
W1 == [id |-> "vm-w1", name |-> <<"w", "e", "b", "-", "1">>, ip_address |-> "10.0.0.4", status |-> "ACTIVE"]
S9 == [id |-> "vm-k9", name |-> <<"k", "a", "f", "k", "a", "-", "9">>, ip_address |-> "10.0.0.9", status |-> "SHUTOFF"]

Pool == IF env.rich THEN <<K1, K2, N3, W1, S9>> ELSE <<K1, K2>>

\* the k-th smallest element of a set of indices
Kth(S, k) == CHOOSE i \in S : Cardinality({j \in S : j < i}) = k - 1

\* what list_vms may return: the machines of the pool, in order, at most MaxVMs of them
Inventories ==
  {[k \in 1..Cardinality(S) |-> Pool[Kth(S, k)]] :
     S \in {T \in SUBSET (1..Len(Pool)) : Cardinality(T) <= MaxVMs}}

R1 == <<"r", "1">>
SendEmailId == <<"S", "e", "n", "d", " ", "E", "m", "a", "i", "l">>

ChatTexts ==
  IF env.rich
  THEN {<<"s", "c", "a", "n", " ", "a", "l", "l", " ", "v", "m", "s">>,
        <<"S", "e", "n", "d", " ", "E", "m", "a", "i", "l">>,
        <<"P", "l", "e", "a", "s", "e", " ", "S", "E", "N", "D", " ", "E", "m", "a", "i", "l", " ", "n", "o", "w">>,
        <<"s", "e", "n", "d", " ", "m", "a", "i", "l">>,
        <<"w", "h", "a", "t", "'", "s", " ", "u", "p">>}
  ELSE {<<"s", "c", "a", "n", " ", "a", "l", "l", " ", "v", "m", "s">>,
        <<"s", "e", "n", "d", " ", "e", "m", "a", "i", "l">>}

\* the report ids the acknowledgment URL may carry
ReportIds == IF env.rich THEN {R1, ChatThreadId, SendEmailId} ELSE {R1, ChatThreadId}

ScanPlan == [action |-> "security_scan", playbook |-> "openscap_scan.yml", filters |-> {}]
ScanPlanNoPlaybook == [action |-> "security_scan", playbook |-> "None", filters |-> {}]
ListPlan == [action |-> "list_vms", playbook |-> "None", filters |-> {"project_name"}]
OtherPlan == [action |-> "restart_vm", playbook |-> "None", filters |-> {}]
NoActionPlan == [playbook |-> "None", filters |-> {}]

Plans ==
  IF env.rich THEN {ScanPlan, ScanPlanNoPlaybook, ListPlan, OtherPlan, NoActionPlan}
  ELSE {ScanPlan, ListPlan, OtherPlan}

SupervisorOutcomes ==
  {[llm |-> x, plan |-> NoDelta] : x \in LLMOutcomes \ {"ok"}}
    \cup {[llm |-> "ok", plan |-> p] : p \in Plans}

DiscoveryOutcomes ==
  {[inv |-> [kind |-> k, vms |-> <<>>]] : k \in IF env.rich THEN {"conn_error", "error"} ELSE {"conn_error"}}
    \cup {[inv |-> [kind |-> "ok", vms |-> v]] : v \in Inventories}

Finding == [id |-> "oval:1", title |-> "openssl outdated", class |-> "patch", references |-> "CVE-1"]

Contents ==
  {[readable |-> TRUE, vulns |-> <<>>], [readable |-> TRUE, vulns |-> <<Finding>>]}
    \cup (IF env.rich THEN {[readable |-> FALSE, vulns |-> <<>>]} ELSE {})

ScanOutcomes ==
  {[kind |-> "raise", fetched |-> FALSE, content |-> NoContent],
   [kind |-> "failed", fetched |-> FALSE, content |-> NoContent]}
    \cup (IF env.rich THEN {[kind |-> "ran", fetched |-> FALSE, content |-> NoContent]} ELSE {})
    \cup {[kind |-> "ran", fetched |-> TRUE, content |-> c] : c \in Contents}

SkippedOutcome == [kind |-> "none", fetched |-> FALSE, content |-> NoContent]

\* the orders in which the units of a set of indices may finish
Orders(S) ==
  {f \in [1..Cardinality(S) -> S] : \A a, b \in 1..Cardinality(S) : a # b => f[a] # f[b]}

ExecutionOutcomes(state) ==
  LET target_vms == SelectSeq(Get(state, "target_vms", <<>>), IsKafka)
      n == Len(target_vms)
      scanning == {i \in 1..n : HasAddress(target_vms[i])}
  IN {[playbookExists |-> e, scan |-> f, order |-> ord] :
        e \in (IF env.rich THEN BOOLEAN ELSE {TRUE}),
        f \in {g \in [1..n -> ScanOutcomes \cup {SkippedOutcome}] :
                 \A i \in 1..n : (g[i] = SkippedOutcome) <=> (i \notin scanning)},
        ord \in Orders(scanning)}

\* the calls of analysis_node are made in order and stop at the first failure
AnalysisTail == [llm2 |-> "ok", llm3 |-> "ok", llm4 |-> "ok", cfg |-> "recipients", sent |-> TRUE]

AnalysisOutcomes ==
  {[csvOk |-> c] @@ t :
     c \in (IF env.rich THEN BOOLEAN ELSE {TRUE}),
     t \in {[llm1 |-> x] @@ AnalysisTail : x \in LLMOutcomes}
            \cup {[llm1 |-> "ok"] @@ [AnalysisTail EXCEPT !.llm2 = "raise"],
                  [llm1 |-> "ok"] @@ [AnalysisTail EXCEPT !.llm3 = "raise"],
                  [llm1 |-> "ok"] @@ [AnalysisTail EXCEPT !.llm4 = "raise"]}
            \cup {[llm1 |-> "ok"] @@ [AnalysisTail EXCEPT !.cfg = k, !.sent = b] :
                    k \in {"recipients", "empty", "none"}, b \in BOOLEAN}}

NotificationOutcomes ==
  {[cfg |-> k, sent |-> b] : k \in {"recipients", "empty", "none"}, b \in BOOLEAN}

CloningOutcomes(state) ==
  LET n == Len(Get(state, "vulnerable_vms", <<>>))
  IN {[client |-> c, cfg |-> k, net |-> x, clone |-> f] :
        c \in {"ok", "conn_error"}, k \in {"dict", "none"}, x \in {"ok", "fail"},
        f \in [1..n -> {"ok", "snapshot_fail", "launch_fail"}]}

(***************************************************************************)
(* The checkpointer (AsyncPostgresSaver), keyed by thread id.              *)
(***************************************************************************)
Load(thread) == IF thread \in DOMAIN store THEN store[thread] ELSE FreshState

Put(thread, state) == (thread :> state) @@ store

NoStore == [t \in {} |-> FreshState]
NoFiles == [h \in {} |-> NoContent]

IdleRun ==
  [thread |-> ChatThreadId, kind |-> "none", pc |-> "idle", st |-> FreshState,
   visited |-> <<>>, wasAwaiting |-> FALSE]

NoLast ==
  [node |-> "none", raised |-> FALSE, delta |-> NoDelta, inplace |-> <<>>, fx |-> NoFx,
   pre |-> FreshState, clean |-> TRUE, cfg |-> "-"]

Idle == run.pc \in {"idle", "END", "FAILED"}

(***************************************************************************)
(* A graph run starts (astream / ainvoke with an input): the thread's      *)
(* checkpoint is loaded, the input is written to its channels, and the     *)
(* graph is entered at entry_router.                                       *)
(***************************************************************************)
StartRun(kind, thread, user_query) ==
  LET loaded == Load(thread)
      inputs == [user_query |-> user_query]
      state == Merge(loaded, inputs)
  IN /\ Idle
     /\ runsLeft > 0
     /\ runsLeft' = runsLeft - 1
     /\ store' = Put(thread, state)
     /\ run' = [thread |-> thread, kind |-> kind, pc |-> "entry_router", st |-> state,
                visited |-> <<>>,
                wasAwaiting |-> (Get(loaded, "awaiting_acknowledgment", FALSE) = TRUE)]
     /\ last' = [NoLast EXCEPT !.node = "input", !.delta = inputs, !.pre = loaded]
     /\ UNCHANGED <<files, env, inflight>>

\* chat_endpoint (app/main.py): an empty query starts nothing
Chat ==
  \E text \in ChatTexts :
    /\ text # <<>>
    /\ StartRun("chat", ChatThreadId, TextQuery(text))

\* acknowledge_endpoint (app/main.py)
Acknowledge ==
  \E report_id \in ReportIds :
    StartRun("webhook", report_id, CloningDirective(report_id))

(***************************************************************************)
(* One engine tick: the node at run.pc runs on the in-memory state, its    *)
(* delta is merged, the checkpoint is written, the next node is chosen.    *)
(* A node that raises ends the run; nothing is written for that tick.      *)
(* last keeps what the tick did: the node, the state it was given, whether *)
(* every collaborator it could call answered without a failure (clean),    *)
(* what notification_config.yaml gave notification_node (cfg) and what the *)
(* node returned.                                                          *)
(***************************************************************************)
Clean(node, o) ==
  CASE node = "supervisor" -> o.llm = "ok"
    [] node = "discovery" -> o.inv.kind = "ok"
    [] node = "execution" ->
         /\ o.playbookExists
         /\ \A i \in DOMAIN o.scan : o.scan[i] = SkippedOutcome \/ (o.scan[i].kind = "ran" /\ o.scan[i].fetched)
    [] node = "analysis" ->
         /\ o.csvOk /\ o.cfg = "recipients" /\ o.sent
         /\ \A k \in {"llm1", "llm2", "llm3", "llm4"} : o[k] = "ok"
    [] node = "notification" -> o.cfg = "recipients" /\ o.sent
    [] node = "cloning" ->
         /\ o.client = "ok" /\ o.cfg = "dict" /\ o.net = "ok"
         /\ \A i \in DOMAIN o.clone : o.clone[i] = "ok"
    [] OTHER -> TRUE

Tick(r, o) ==
  LET node == run.pc
      appended == [run.st EXCEPT !["messages"] = @ \o r.inplace]
      merged == Merge(appended, r.delta)
      persisted == IF env.persistsInPlace \/ "messages" \in DOMAIN r.delta
                   THEN merged
                   ELSE [merged EXCEPT !["messages"] = Load(run.thread)["messages"]]
  IN /\ files' = r.fx.written @@ files
     /\ last' = [node |-> node, raised |-> r.raised, delta |-> r.delta,
                 inplace |-> r.inplace, fx |-> r.fx, pre |-> run.st, clean |-> Clean(node, o),
                 cfg |-> IF node = "notification" THEN o.cfg ELSE "-"]
     /\ IF r.raised
        THEN /\ store' = store
             /\ run' = [run EXCEPT !.pc = "FAILED", !.visited = Append(@, node)]
        ELSE /\ store' = Put(run.thread, persisted)
             /\ run' = [run EXCEPT !.pc = NextNode(node, merged), !.st = merged,
                                   !.visited = Append(@, node)]
     /\ UNCHANGED <<runsLeft, env, inflight>>

Step ==
  /\ run.pc \in Nodes
  /\ CASE run.pc = "entry_router" -> Tick(Returned(entry_router_node(run.st), <<>>, NoFx), NoDelta)
       [] run.pc = "supervisor" -> \E o \in SupervisorOutcomes : Tick(supervisor_node(run.st, o), o)
       [] run.pc = "discovery" -> \E o \in DiscoveryOutcomes : Tick(discovery_node(run.st, o), o)
       [] run.pc = "execution" -> \E o \in ExecutionOutcomes(run.st) : Tick(execution_node(run.st, o, files), o)
       [] run.pc = "analysis" -> \E o \in AnalysisOutcomes : Tick(analysis_node(run.st, o, files), o)
       [] run.pc = "notification" -> \E o \in NotificationOutcomes : Tick(notification_node(run.st, o), o)
       [] OTHER -> \E o \in CloningOutcomes(run.st) : Tick(cloning_node(run.st, o), o)

Next == Chat \/ Acknowledge \/ Step

(***************************************************************************)
(* Spec: an empty checkpoint store, MaxRuns inbound triggers.              *)
(***************************************************************************)
Init ==
  /\ store = NoStore
  /\ files = NoFiles
  /\ run = IdleRun
  /\ last = NoLast
  /\ runsLeft = MaxRuns
  /\ env \in {[apiKey |-> k, persistsInPlace |-> p, rich |-> FALSE] : k \in BOOLEAN, p \in BOOLEAN}
  /\ inflight = <<>>

Spec == Init /\ [][Next]_vars

(***************************************************************************)
(* SpecResume: one inbound trigger on a store that already holds a         *)
(* checkpoint.  The checkpoint is what the Postgres tables hold when the   *)
(* process starts; the graph reads it as it reads its input.               *)
(***************************************************************************)
Report1 == [status |-> "successful", vm_name |-> K1.name, report_path |-> ReportPath(K1.ip_address)]

DraftSubject == Txt("Security Alert: vulnerabilities found", <<>>, "", 1)
DraftBody == Txt("<html>findings</html>", <<>>, "", 1)

\* a scanning run that ended in analysis_node's except branch
CkScanned ==
  [scan_results |-> <<Report1>>,
   error_log |-> <<Txt(AnalysisErrorTag, <<>>, "KeyError: acknowledgment_link", 0)>>,
   messages |-> <<Msg(Txt("Analyzing scan reports...", <<>>, "", 1))>>,
   user_query |-> TextQuery(<<"s", "c", "a", "n", " ", "a", "l", "l", " ", "v", "m", "s">>),
   next_node |-> "supervisor",
   plan |-> ScanPlan,
   target_vms |-> <<K1>>]

\* a session parked for the operator's approval
CkAwaiting ==
  [awaiting_acknowledgment |-> TRUE,
   draft_email_subject |-> DraftSubject,
   draft_email_body |-> DraftBody,
   draft_attachment_path |-> <<"vulnerability_summary.csv">>,
   vulnerable_vms |-> <<K1, K2>>,
   report_id |-> R1] @@ CkScanned

\* parked, but without a draft
CkAwaitingNoDraft == [awaiting_acknowledgment |-> TRUE] @@ CkScanned

\* after the notification was sent: the run that sent it was routed by rule (a)
CkNotified ==
  [CkAwaiting EXCEPT !["awaiting_acknowledgment"] = FALSE,
                     !["user_query"] = TextQuery(SEND_EMAIL),
                     !["next_node"] = "send_notification"] @@ [email_sent |-> TRUE]

Checkpoints == {CkScanned, CkAwaiting, CkAwaitingNoDraft, CkNotified}

InitResume ==
  /\ store \in {NoStore} \cup {t :> ck : t \in {ChatThreadId, R1, SendEmailId}, ck \in Checkpoints}
  /\ files = IF store = NoStore THEN NoFiles
             ELSE (K1.ip_address :> [readable |-> TRUE, vulns |-> <<Finding>>])
  /\ run = IdleRun
  /\ last = NoLast
  /\ runsLeft = 1
  /\ env \in {[apiKey |-> k, persistsInPlace |-> p, rich |-> TRUE] : k \in BOOLEAN, p \in BOOLEAN}
  /\ inflight = <<>>

SpecResume == InitResume /\ [][Next]_vars

(***************************************************************************)
(* Properties.                                                             *)
(***************************************************************************)
InSeq(x, seq) == \E i \in 1..Len(seq) : seq[i] = x

IsPrefix(a, b) == Len(a) <= Len(b) /\ SubSeq(b, 1, Len(a)) = a

UpperChar(c) ==
  IF \E i \in 1..26 : LowerCase[i] = c
  THEN UpperCase[CHOOSE i \in 1..26 : LowerCase[i] = c]
  ELSE c

\* the text holds the approval phrase at some position, each letter in either case
HasApprovalPhrase(text) ==
  \E k \in 0..(Len(text) - Len(SEND_EMAIL)) :
    \A j \in 1..Len(SEND_EMAIL) : text[k + j] \in {SEND_EMAIL[j], UpperChar(SEND_EMAIL[j])}

Awaiting(state) ==
  "awaiting_acknowledgment" \in DOMAIN state /\ state["awaiting_acknowledgment"] = TRUE

IsCloningDirective(q) == q.kind = "dict" /\ q.action = "initiate_cloning"

\* the node the entry router must choose, by the priority (a) to (d)
EntryPriority(state) ==
  LET q == state["user_query"]
  IN CASE Awaiting(state) /\ HasApprovalPhrase(str(q)) -> "notification"
       [] Awaiting(state) /\ ~HasApprovalPhrase(str(q)) -> "supervisor"
       [] ~Awaiting(state) /\ IsCloningDirective(q) -> "cloning"
       [] OTHER -> "supervisor"

EntryRouted == last.node = "entry_router"

\* C1: whenever the entry router has run, the node entered next is the one the
\* priority (a) awaiting and "send email" in any case -> notification, (b) awaiting
\* otherwise -> supervisor, (c) not awaiting and an initiate_cloning directive ->
\* cloning, (d) otherwise -> supervisor gives for the state the router was given,
\* and next_node holds the matching decision.
C1_EntryRouterPriority ==
  EntryRouted =>
    /\ run.pc = EntryPriority(last.pre)
    /\ EntryEdges[run.st["next_node"]] = EntryPriority(last.pre)
    /\ route_from_entry(run.st) = last.delta["next_node"]

\* rule (a) on a text that is not in lower case
C1_Witness ==
  /\ EntryRouted
  /\ Awaiting(last.pre)
  /\ last.pre["user_query"].kind = "text"
  /\ ~contains(last.pre["user_query"].text, SEND_EMAIL)
  /\ run.pc = "notification"

(***************************************************************************)
(* The scanning scenario of C2: plan {security_scan, {}}, two ACTIVE       *)
(* targets, both scans successful with one finding each.                   *)
(***************************************************************************)
TwoTargetsOneFindingEach(state, fs) ==
  /\ PlanAction(state) = "security_scan"
  /\ state["plan"].filters = {}
  /\ Len(Get(state, "target_vms", <<>>)) = 2
  /\ Len(state["scan_results"]) = 2
  /\ \A i \in 1..2 : Len(ReadReport(state["scan_results"][i], fs).vulns) = 1

\* C2: in the scanning scenario, with every collaborator answering, the analysis
\* step ends with awaiting_acknowledgment = true; a later "send email" on that
\* session is routed to notification, and notification ends with email_sent =
\* true and awaiting_acknowledgment = false.
C2_ScanThenSendEmail ==
  /\ (last.node = "analysis" /\ last.clean /\ TwoTargetsOneFindingEach(last.pre, files))
       => Awaiting(run.st)
  /\ (EntryRouted /\ run.kind = "chat" /\ str(last.pre["user_query"]) = SEND_EMAIL
        /\ TwoTargetsOneFindingEach(last.pre, files)
        /\ last.pre["error_log"] = <<Txt(AnalysisErrorTag, <<>>, "KeyError: acknowledgment_link", 0)>>)
       => run.pc = "notification"
  /\ (last.node = "notification" /\ last.clean)
       => (Get(run.st, "email_sent", FALSE) = TRUE /\ ~Awaiting(run.st))

\* the virtual machines of the session that have at least one finding
TargetsWithFindings(state, fs) ==
  {vm \in {state["target_vms"][i] : i \in 1..Len(Get(state, "target_vms", <<>>))} :
     vm.name \in DOMAIN AllVulnerabilities(state["scan_results"], fs)}

\* C3: whenever analysis finds at least one finding and every collaborator call
\* succeeds, its delta sets awaiting_acknowledgment = true, holds the draft
\* subject, body and attachment, sets vulnerable_vms to exactly the targets with
\* a finding, and sets a report_id.
C3_AnalysisSuspends ==
  (last.node = "analysis" /\ last.clean /\ ~last.raised
     /\ DOMAIN AllVulnerabilities(last.pre["scan_results"], files) # {})
    => /\ {"awaiting_acknowledgment", "draft_email_subject", "draft_email_body",
           "draft_attachment_path", "vulnerable_vms", "report_id"} \subseteq DOMAIN last.delta
       /\ last.delta["awaiting_acknowledgment"] = TRUE
       /\ {last.delta["vulnerable_vms"][i] : i \in 1..Len(last.delta["vulnerable_vms"])}
            = TargetsWithFindings(last.pre, files)

WebhookRouted == EntryRouted /\ run.kind = "webhook"

C5_OneSessionKey ==
  run.kind = "webhook" =>
    \A t \in DOMAIN store :
      (Get(store[t], "target_vms", <<>>) # <<>> \/ store[t]["scan_results"] # <<>>) => run.thread = t

FanOutStarted == last.node = "execution" /\ last.fx.scans # <<>>

\* C6: once the scan units are started the fan-in completes whatever one unit does
\* (returns failed or raises): the step returns, and the successful outcomes plus
\* the new error_log entries account for every selected target.
C6_FanOutIsolation ==
  FanOutStarted =>
    /\ ~last.raised
    /\ Len(last.fx.results) = Len(last.fx.selected)
    /\ Len(Get(last.delta, "scan_results", <<>>)) + Len(Get(last.delta, "error_log", <<>>))
         = Len(last.fx.selected)

FanInDone == last.node = "execution" /\ ~last.raised /\ last.fx.results # <<>>

\* C7: when the fan-in completes, every unit result is either successful with a
\* report_path and among the returned scan_results, or rendered as one error_log
\* entry "Scan failed on <vm_name>: <reason>"; the two lists together have as many
\* entries as there are selected targets.
C7_FanInPartition ==
  FanInDone =>
    LET res == last.fx.results
        ok == {i \in 1..Len(res) : res[i]["status"] = "successful" /\ "report_path" \in DOMAIN res[i]}
    IN /\ Len(res) = Len(last.fx.selected)
       /\ Len(last.delta["scan_results"]) = Cardinality(ok)
       /\ Len(last.delta["error_log"]) = Len(res) - Cardinality(ok)
       /\ \A i \in ok : InSeq(res[i], last.delta["scan_results"])
       /\ \A i \in (1..Len(res)) \ ok :
            \E k \in 1..Len(last.delta["error_log"]) :
              /\ last.delta["error_log"][k].tag = "Scan failed on"
              /\ last.delta["error_log"][k].name = res[i]["vm_name"]
              /\ last.delta["error_log"][k].detail = res[i]["error"]
       /\ Len(last.delta["scan_results"]) + Len(last.delta["error_log"]) = Len(last.fx.selected)

\* a fan-in over a skipped target, a run without a fetched report and a success
C7_Witness ==
  /\ FanInDone
  /\ Len(last.fx.selected) = 2
  /\ Len(last.delta["scan_results"]) = 1
  /\ \E k \in 1..Len(last.delta["error_log"]) :
       last.delta["error_log"][k].detail \in {"No IP address", "Report file not fetched by playbook."}

RanDiscoveryOrScan ==
  \/ InSeq("discovery", run.visited) \/ InSeq("execution", run.visited)
  \/ run.pc \in {"discovery", "execution"}

NoFindingsAnalysed ==
  /\ last.node = "analysis"
  /\ last.pre["scan_results"] # <<>>
  /\ \A i \in 1..Len(last.pre["scan_results"]) : ReadReport(last.pre["scan_results"][i], files).vulns = <<>>

\* C10: when the reports analysis reads hold no finding at all, the step sets
\* final_summary to the "no critical vulnerabilities" message, calls no
\* summarizer, sends no email, writes no draft and does not write
\* awaiting_acknowledgment (a session that was not awaiting is still not).
C10_NoFindingsShortCircuit ==
  NoFindingsAnalysed =>
    /\ ~last.raised
    /\ Get(last.delta, "final_summary", NoText) = NoCriticalMessage
    /\ last.fx.llm = 0
    /\ last.fx.emails = <<>>
    /\ DOMAIN last.delta = {"final_summary", "messages"}
    /\ Awaiting(run.st) = Awaiting(last.pre)
    /\ run.pc = "END"

\* two reports read, neither with a finding, in a session that was not awaiting
C10_Witness ==
  /\ NoFindingsAnalysed
  /\ Len(last.pre["scan_results"]) >= 2
  /\ ~Awaiting(run.st)
  /\ Get(run.st, "final_summary", NoText) = NoCriticalMessage

\* C11: no step executor raises: whatever a collaborator does, every node that
\* runs returns a delta to the engine.
C11_StepsNeverRaise == last.node \in Nodes => ~last.raised

\* the delta's messages hold an entry about the error: its text, or an entry
\* naming the virtual machine the error is about
SurfacedIn(e, delta) ==
  /\ "messages" \in DOMAIN delta
  /\ \E k \in 1..Len(delta["messages"]) :
       \/ delta["messages"][k] = Msg(e)
       \/ (e.name # <<>> /\ delta["messages"][k][2].name = e.name)

\* C12: whenever a step returns error_log entries, the messages it returns (the
\* ones merged by the reducer and streamed for that step) hold an entry about
\* each of them.
C12_ErrorsSurfaced ==
  (last.node \in Nodes /\ "error_log" \in DOMAIN last.delta)
    => \A k \in 1..Len(last.delta["error_log"]) : SurfacedIn(last.delta["error_log"][k], last.delta)

EmptyPlanError == Txt("Supervisor: LLM returned an empty plan.", <<>>, "", 0)
MalformedPlanError ==
  Txt("Supervisor: Failed to understand the plan from the AI. Please try rephrasing your query.", <<>>, "", 0)

PlanningFailed ==
  /\ last.node = "supervisor"
  /\ "error_log" \in DOMAIN last.delta
  /\ \E k \in 1..Len(last.delta["error_log"]) :
       last.delta["error_log"][k] \in {EmptyPlanError, MalformedPlanError}

\* C13: when the planner answers with nothing or with text that is not JSON, the
\* plan step returns one error_log entry (a different text in each case) and no
\* plan, and the run ends there: the post-plan router chooses the terminal, so
\* neither discovery nor execution runs, whatever the session already holds.
C13_PlanningFailureStops ==
  PlanningFailed =>
    /\ Len(last.delta["error_log"]) = 1
    /\ EmptyPlanError # MalformedPlanError
    /\ "plan" \notin DOMAIN last.delta
    /\ route_after_plan(run.st) = "end"
    /\ run.pc = "END"

ConnectFailed ==
  /\ last.node = "discovery"
  /\ "error_log" \in DOMAIN last.delta
  /\ \E k \in 1..Len(last.delta["error_log"]) :
       last.delta["error_log"][k].tag
         = "Discovery: Failed to connect to OpenStack. Please check credentials. Error:"

\* C14: when the inventory collaborator raises a connectivity error, discovery
\* does not call it again, returns one error_log entry, and the run ends at that
\* step: execution and analysis do not run.
C14_ConnectFailureEndsRun ==
  ConnectFailed =>
    /\ Len(last.fx.cloud) <= 1
    /\ Len(last.delta["error_log"]) = 1
    /\ run.pc = "END"

PlanRouted == last.node = "supervisor" /\ ~last.raised

\* the plan of the state names an action the graph can carry out
ActionIsDiscoverable(state) ==
  /\ "plan" \in DOMAIN state
  /\ "action" \in DOMAIN state["plan"]
  /\ state["plan"]["action"] \in {"security_scan", "list_vms"}

\* C15: after the plan step, the post-plan router chooses discover exactly when
\* plan.action is security_scan or list_vms, and the terminal for any other
\* value, an absent plan and an absent action included.
C15_PostPlanRouter ==
  PlanRouted =>
    /\ ActionIsDiscoverable(run.st) => (route_after_plan(run.st) = "discover" /\ run.pc = "discovery")
    /\ ~ActionIsDiscoverable(run.st) => (route_after_plan(run.st) = "end" /\ run.pc = "END")

\* a plan without an action ends the run; the session held an older scan
C15_Witness ==
  /\ PlanRouted
  /\ "plan" \in DOMAIN run.st
  /\ "action" \notin DOMAIN run.st["plan"]
  /\ run.st["scan_results"] # <<>>
  /\ run.pc = "END"

DiscoveryRouted == last.node = "discovery" /\ ~last.raised

HasTargets(state) == "target_vms" \in DOMAIN state /\ Len(state["target_vms"]) > 0

\* C16: after the discovery step, the post-discovery router chooses the terminal
\* when plan.action is list_vms; otherwise execute when target_vms is non-empty
\* and analysis when it is empty or absent.  A run planned as list_vms therefore
\* runs neither execution nor analysis.
C16_PostDiscoveryRouter ==
  /\ DiscoveryRouted =>
       LET expected == IF ActionIsDiscoverable(run.st) /\ run.st["plan"]["action"] = "list_vms" THEN "END"
                       ELSE IF HasTargets(run.st) THEN "execution"
                       ELSE "analysis"
       IN /\ run.pc = expected
          /\ DiscoveryEdges[route_after_discovery(run.st)] = expected
  /\ (InSeq("discovery", run.visited) /\ PlanAction(run.st) = "list_vms")
       => (~InSeq("execution", run.visited) /\ ~InSeq("analysis", run.visited)
           /\ run.pc \notin {"execution", "analysis"})

\* a list_vms run that found machines ends after discovery
C16_Witness ==
  /\ DiscoveryRouted
  /\ PlanAction(run.st) = "list_vms"
  /\ "target_vms" \in DOMAIN last.delta
  /\ HasTargets(run.st)
  /\ run.pc = "END"

\* C17: whenever entry_router, supervisor or discovery has returned, the routing
\* function of its conditional edges gives, on the merged state, a key of the
\* edge map, so the graph always has a next node and no run fails in a router.
C17_RouterTotality ==
  /\ (last.node = "entry_router" /\ ~last.raised) => route_from_entry(run.st) \in DOMAIN EntryEdges
  /\ (last.node = "supervisor" /\ ~last.raised) => route_after_plan(run.st) \in DOMAIN PlanEdges
  /\ (last.node = "discovery" /\ ~last.raised) => route_after_discovery(run.st) \in DOMAIN DiscoveryEdges
  /\ (last.node \in Nodes /\ ~last.raised) => run.pc \in Nodes \cup {"END"}

\* the session held the next_node of an older run; a directive is routed by the new one
C17_Witness ==
  /\ last.node = "entry_router"
  /\ last.pre["user_query"].kind = "dict"
  /\ Get(last.pre, "next_node", "None") = "send_notification"
  /\ route_from_entry(run.st) = "start_cloning"
  /\ run.pc = "cloning"

DraftPopulated(state) ==
  /\ "draft_email_subject" \in DOMAIN state /\ Truthy(state["draft_email_subject"])
  /\ "draft_email_body" \in DOMAIN state /\ Truthy(state["draft_email_body"])

NotificationRan == last.node = "notification" /\ DraftPopulated(last.pre)

AwaitingNodes == {"supervisor", "execution", "analysis"}

StartDuring(kind, thread, user_query) ==
  LET loaded == Load(thread)
      inputs == [user_query |-> user_query]
      state == Merge(loaded, inputs)
  IN /\ run.pc \in AwaitingNodes
     /\ runsLeft > 0
     /\ runsLeft' = runsLeft - 1
     /\ inflight' = Append(inflight, run)
     /\ store' = Put(thread, state)
     /\ run' = [thread |-> thread, kind |-> kind, pc |-> "entry_router", st |-> state,
                visited |-> <<>>,
                wasAwaiting |-> (Get(loaded, "awaiting_acknowledgment", FALSE) = TRUE)]
     /\ last' = [NoLast EXCEPT !.node = "input", !.delta = inputs, !.pre = loaded]
     /\ UNCHANGED <<files, env>>

ChatDuring ==
  \E text \in ChatTexts :
    /\ text # <<>>
    /\ StartDuring("chat", ChatThreadId, TextQuery(text))

AcknowledgeDuring ==
  \E report_id \in ReportIds :
    StartDuring("webhook", report_id, CloningDirective(report_id))

\* the newer run is over: the suspended one is scheduled again
Resume ==
  /\ run.pc \notin Nodes
  /\ inflight # <<>>
  /\ run' = inflight[Len(inflight)]
  /\ inflight' = SubSeq(inflight, 1, Len(inflight) - 1)
  /\ UNCHANGED <<store, files, last, runsLeft, env>>

NextOverlap == Chat \/ Acknowledge \/ ChatDuring \/ AcknowledgeDuring \/ Resume \/ Step

\* an empty store; the API key is set, so that supervisor_node reaches its await
InitOverlap ==
  /\ store = NoStore
  /\ files = NoFiles
  /\ run = IdleRun
  /\ last = NoLast
  /\ runsLeft = MaxRuns
  /\ env \in {[apiKey |-> TRUE, persistsInPlace |-> p, rich |-> FALSE] : p \in BOOLEAN}
  /\ inflight = <<>>

SpecOverlap == InitOverlap /\ [][NextOverlap]_vars

\* C18: for any one thread id at most one step executor is running: no run is
\* suspended inside a node while another run of the same thread is at a node.
C18_StepsNeverOverlap ==
  \A i \in 1..Len(inflight) : inflight[i].thread = run.thread => run.pc \notin Nodes

(***************************************************************************)
(* The cloning fan-out.                                                    *)
(***************************************************************************)
CallsOf(calls, op) == {i \in 1..Len(calls) : calls[i].op = op}
PerTargetCalls(calls) == CallsOf(calls, "create_vm_snapshot") \cup CallsOf(calls, "create_vm_from_snapshot")
CloningRan == last.node = "cloning"
ErrorsOf(delta) == Get(delta, "error_log", <<>>)
\* the cloning step returned the critical error of the given reason
CriticalWith(reason) ==
  /\ CloningRan
  /\ \E i \in 1..Len(ErrorsOf(last.delta)) : ErrorsOf(last.delta)[i].detail = reason
\* the step found targets, obtained its client and loaded its configuration
ReachedNetworkStep ==
  /\ CloningRan
  /\ Get(last.pre, "vulnerable_vms", <<>>) # <<>>
  /\ ~CriticalWith("ConnectionError")
  /\ ~CriticalWith("AttributeError")
\* one network call, made first; after a failed one no per-target call and one error
NetworkOnceAndFirst ==
  /\ Cardinality(CallsOf(last.fx.cloud, "create_isolated_network")) = 1
  /\ last.fx.cloud[1].op = "create_isolated_network"
  /\ CriticalWith("network") =>
       /\ PerTargetCalls(last.fx.cloud) = {}
       /\ Len(ErrorsOf(last.delta)) = 1

\* C21 (as stated): every cloning step makes the isolated-network call exactly
\* once, before any per-target snapshot, never once per target; when the network
\* call fails no snapshot or launch is started and the step returns one error.
C21_NetworkOncePerCloningStep == CloningRan => NetworkOnceAndFirst

\* C21 (amended): a cloning step makes the isolated-network call at most once and
\* never after a per-target call; a step that found targets, obtained its cloud
\* client and loaded its configuration makes it exactly once and first; when the
\* network call fails no snapshot or launch is started and the step returns one error.
C21_NetworkOnceBeforeTargets ==
  CloningRan =>
    /\ Cardinality(CallsOf(last.fx.cloud, "create_isolated_network")) <= 1
    /\ PerTargetCalls(last.fx.cloud) # {} => NetworkOnceAndFirst
    /\ ReachedNetworkStep => NetworkOnceAndFirst
    /\ ~ReachedNetworkStep => last.fx.cloud = <<>>

C21_Witness ==
  /\ ReachedNetworkStep
  /\ Len(last.pre["vulnerable_vms"]) = 2
  /\ Cardinality(CallsOf(last.fx.cloud, "create_vm_snapshot")) = 2
  /\ NetworkOnceAndFirst

\* the progress entries of the last step's delta
MessagesOf(delta) == Get(delta, "messages", <<>>)
Logged(delta, tag, name) ==
  \E i \in 1..Len(MessagesOf(delta)) :
    MessagesOf(delta)[i][2].tag = tag /\ MessagesOf(delta)[i][2].name = name
CloneFailed(vm) == Logged(last.delta, "Failed to clone. Error:", vm.name)
CloneLaunched(vm) == Logged(last.delta, "Clone launched successfully of", vm.name)
Attempted(vm) == \E i \in CallsOf(last.fx.cloud, "create_vm_snapshot") : last.fx.cloud[i].vm = vm.id
\* the cloning step got past the network step
FanOutRan == ReachedNetworkStep /\ ~CriticalWith("network")

\* C22: in a cloning step whose fan-out ran, every target of vulnerable_vms has
\* its snapshot attempted whatever happened to the others, each target ends
\* either launched or with its own failure entry (never both), and the step
\* returns its delta (final summary and progress entries, no error entry)
\* without raising.
C22_CloneFanOutIsolation ==
  FanOutRan =>
    /\ ~last.raised
    /\ "final_summary" \in DOMAIN last.delta
    /\ ErrorsOf(last.delta) = <<>>
    /\ \A i \in 1..Len(last.pre["vulnerable_vms"]) :
         LET vm == last.pre["vulnerable_vms"][i]
         IN /\ Attempted(vm)
            /\ CloneFailed(vm) # CloneLaunched(vm)
    /\ Cardinality(CallsOf(last.fx.cloud, "create_vm_snapshot")) = Len(last.pre["vulnerable_vms"])

C22_Witness ==
  /\ FanOutRan
  /\ Len(last.pre["vulnerable_vms"]) = 2
  /\ CloneFailed(last.pre["vulnerable_vms"][1])
  /\ CallsOf(last.fx.cloud, "create_vm_from_snapshot") # {}
  /\ CloneLaunched(last.pre["vulnerable_vms"][2])
  /\ run.pc = "END"

\* the positions at which units start and finish a blocking call, read from
\* the order of a step's progress entries
EntriesTagged(msgs, tags) == {i \in 1..Len(msgs) : msgs[i][2].tag \in tags}
SnapshotStarts == EntriesTagged(MessagesOf(last.delta), {"Creating snapshot for"})
SnapshotEnds == EntriesTagged(MessagesOf(last.delta), {"Snapshot created for", "Failed to clone. Error:"})

ScanStarts == EntriesTagged(last.inplace, {"Starting OVAL scan on"})
ScanEnds == EntriesTagged(last.inplace, {"Scan completed for. Status:"})
ScanFanOut == last.node = "execution" /\ Len(last.fx.scans) >= 2

ParkedWithDraft == \A t \in DOMAIN store : Awaiting(store[t]) => DraftPopulated(store[t])

\* C25: awaiting_acknowledgment = true implies a populated draft (subject and
\* body) in every persisted state: no trigger and no step takes a checkpoint
\* store in which that holds to one in which it does not.
C25_AwaitingImpliesDraft == [][ParkedWithDraft => ParkedWithDraft']_vars

\* a step has run on a parked session and its checkpoint is still parked, with its draft
C25_Witness ==
  /\ last.node \in {"supervisor", "discovery", "execution", "analysis"}
  /\ run.thread \in DOMAIN store
  /\ Awaiting(store[run.thread])
  /\ DraftPopulated(store[run.thread])
  /\ ParkedWithDraft

NamesOf(vms) == {vms[i].name : i \in 1..Len(vms)}
SuccessfulNames(scan_results) ==
  {scan_results[i]["vm_name"] : i \in {j \in 1..Len(scan_results) : scan_results[j]["status"] = "successful"}}
\* the findings map analysis_node builds from the state it was given
FindingsKeys == DOMAIN AllVulnerabilities(Get(last.pre, "scan_results", <<>>), files)

\* C26: every scan_results entry an execution step returns names a machine of
\* the target_vms that step was given, every persisted scan_results entry is a
\* successful one, and the keys of the findings map an analysis step builds are
\* target names of successful scan_results entries.
C26_ResultsNameTargets ==
  /\ (last.node = "execution" /\ ~last.raised) =>
       \A i \in 1..Len(Get(last.delta, "scan_results", <<>>)) :
         /\ last.delta["scan_results"][i]["vm_name"] \in NamesOf(Get(last.pre, "target_vms", <<>>))
         /\ last.delta["scan_results"][i]["status"] = "successful"
  /\ \A t \in DOMAIN store :
       \A i \in 1..Len(Get(store[t], "scan_results", <<>>)) : store[t]["scan_results"][i]["status"] = "successful"
  /\ (last.node = "analysis" /\ ~last.raised) =>
       FindingsKeys \subseteq SuccessfulNames(Get(last.pre, "scan_results", <<>>))

\* analysis ran on the results of this run's scans: two machines reported, one of them with findings
C26_Witness ==
  /\ last.node = "analysis" /\ ~last.raised
  /\ InSeq("execution", run.visited)
  /\ Cardinality(SuccessfulNames(last.pre["scan_results"])) = 2
  /\ Cardinality(FindingsKeys) = 1
  /\ SuccessfulNames(last.pre["scan_results"]) \subseteq NamesOf(last.pre["target_vms"])

\* the edges a run may follow, as the claim lists them
ClaimedEdges ==
  {<<"entry_router", "supervisor">>, <<"entry_router", "notification">>, <<"entry_router", "cloning">>,
   <<"supervisor", "discovery">>, <<"supervisor", "END">>,
   <<"discovery", "execution">>, <<"discovery", "analysis">>, <<"discovery", "END">>,
   <<"execution", "analysis">>, <<"analysis", "END">>, <<"notification", "END">>, <<"cloning", "END">>}
\* the nodes the current run has executed, followed by where it stands
RunPath == run.visited \o <<run.pc>>
EachNodeAtMostOnce == \A i, j \in 1..Len(run.visited) : run.visited[i] = run.visited[j] => i = j
FollowsClaimedEdges ==
  /\ RunPath[1] = "entry_router"
  /\ \A k \in 1..(Len(RunPath) - 1) : RunPath[k + 1] # "FAILED" => <<RunPath[k], RunPath[k + 1]>> \in ClaimedEdges

\* C27: a run executes each node at most once, follows only the listed edges
\* from the entry router, and stops nowhere but at the terminal marker.
C27_RunsReachTerminal ==
  run.pc # "idle" =>
    /\ EachNodeAtMostOnce
    /\ FollowsClaimedEdges
    /\ run.pc \in Nodes \cup {"END"}

\* C28: a step changes state only through the delta it returns: it appends
\* nothing in place to the messages of the state record it was given, so every
\* progress entry it produced is in its returned delta.
C28_OnlyThroughDelta == last.node \in Nodes => last.inplace = <<>>

AnalysisWithFindings == last.node = "analysis" /\ ~last.raised /\ FindingsKeys # {}
AnalysisFailed == AnalysisWithFindings /\ ErrorsOf(last.delta) # <<>>
\* the structured summary came back empty or was not JSON
SummaryUnparsed ==
  AnalysisFailed /\ \E i \in 1..Len(ErrorsOf(last.delta)) :
                      ErrorsOf(last.delta)[i].detail \in {"TypeError", "JSONDecodeError"}

\* C29: an analysis step with findings requests the structured summary first;
\* when that call or its parse fails no further summarizer call and no send is
\* made; a step that made fewer than its four calls has failed; a failed step
\* returns exactly one error_log entry and a delta of error_log and messages
\* only (no final_summary, no email_sent, no draft) and has sent nothing.
C29_AnalysisAllOrNothing ==
  AnalysisWithFindings =>
    /\ last.fx.llm >= 1
    /\ SummaryUnparsed => last.fx.llm = 1
    /\ last.fx.llm < 4 => AnalysisFailed
    /\ AnalysisFailed =>
         /\ Len(ErrorsOf(last.delta)) = 1
         /\ DOMAIN last.delta = {"error_log", "messages"}
         /\ last.fx.emails = <<>>

\* the structured summary was not JSON: one call, one error entry, nothing else
C29_Witness ==
  /\ SummaryUnparsed
  /\ ErrorsOf(last.delta)[1].detail = "JSONDecodeError"
  /\ last.fx.llm = 1
  /\ run.pc = "END"

\* the inventory call of the last discovery step was made and answered
InventorySucceeded == last.node = "discovery" /\ last.clean /\ last.fx.cloud # <<>>
ActivePositions(vms) == {i \in 1..Len(vms) : vms[i].status = "ACTIVE"}
\* t holds exactly the ACTIVE machines of l, in l's order
ActiveInOrder(t, l) ==
  /\ Len(t) = Cardinality(ActivePositions(l))
  /\ \E f \in [1..Len(t) -> ActivePositions(l)] :
       /\ \A i, j \in 1..Len(t) : i < j => f[i] < f[j]
       /\ \A i \in 1..Len(t) : t[i] = l[f[i]]

\* C30: after a discovery step whose inventory call succeeded, target_vms (in
\* the delta and in the merged state) is the list of returned machines whose
\* status is ACTIVE, in the returned order, and the step appended nothing to
\* error_log; in particular an empty filtered list gives target_vms = [] and
\* no error.
C30_DiscoveryKeepsActive ==
  InventorySucceeded =>
    /\ "target_vms" \in DOMAIN last.delta
    /\ ActiveInOrder(last.delta["target_vms"], last.fx.listed)
    /\ run.st["target_vms"] = last.delta["target_vms"]
    /\ ErrorsOf(last.delta) = <<>>
    /\ Get(run.st, "error_log", <<>>) = Get(last.pre, "error_log", <<>>)

\* two machines returned, one of them not ACTIVE: only the other is targeted
C30_Witness ==
  /\ InventorySucceeded
  /\ Len(last.fx.listed) = 2
  /\ Cardinality(ActivePositions(last.fx.listed)) = 1
  /\ Len(run.st["target_vms"]) = 1
  /\ run.st["target_vms"][1].status = "ACTIVE"

(***************************************************************************)
(* The scan units.                                                         *)
(***************************************************************************)
\* the execution step got as far as starting its units
ScanUnitsStarted ==
  /\ last.node = "execution"
  /\ EntriesTagged(last.inplace, {"Beginning security scans on VMs. This may take some time..."}) # {}
CallsTo(address) == {k \in 1..Len(last.fx.scans) : last.fx.scans[k] = address}
SelectedAt(address) == {i \in 1..Len(last.fx.selected) : last.fx.selected[i].ip_address = address}

\* C31: among the units an execution step started, a target without an address
\* gets no scan-execution call and (when the step returns) the outcome
\* skipped / "No IP address"; a target with an address gets exactly one call.
C31_SkipWithoutAddress ==
  ScanUnitsStarted =>
    /\ CallsTo("") = {}
    /\ \A i \in 1..Len(last.fx.selected) :
         LET vm == last.fx.selected[i]
         IN /\ vm.ip_address # "" => Cardinality(CallsTo(vm.ip_address)) = Cardinality(SelectedAt(vm.ip_address))
            /\ (vm.ip_address = "" /\ ~last.raised) =>
                 /\ last.fx.results[i]["status"] = "skipped"
                 /\ last.fx.results[i]["error"] = "No IP address"
                 /\ last.fx.results[i]["vm_name"] = vm.name
    /\ Len(last.fx.scans) = Cardinality({i \in 1..Len(last.fx.selected) : last.fx.selected[i].ip_address # ""})

\* one target with an address and one without: one call, one skipped outcome
C31_Witness ==
  /\ ScanUnitsStarted /\ ~last.raised
  /\ Len(last.fx.selected) = 2
  /\ Len(last.fx.scans) = 1
  /\ \E i \in 1..2 : last.fx.selected[i].ip_address = "" /\ last.fx.results[i]["status"] = "skipped"

\* a name whose first five letters spell kafka in any case
KafkaPrefixed(name) ==
  /\ Len(name) >= 5
  /\ name[1] \in {"k", "K"} /\ name[2] \in {"a", "A"} /\ name[3] \in {"f", "F"}
  /\ name[4] \in {"k", "K"} /\ name[5] \in {"a", "A"}
MatchingPositions(vms) == {i \in 1..Len(vms) : KafkaPrefixed(vms[i].name)}
GivenTargets == Get(last.pre, "target_vms", <<>>)

\* C32: an execution step selects exactly the targets whose name starts with
\* "kafka" in any case, in their order; every scan-execution call goes to the
\* address of a target of target_vms that matches and has a non-empty address;
\* when no target matches the step makes no call and returns an empty delta.
C32_ScanSelection ==
  last.node = "execution" =>
    /\ Len(last.fx.selected) = Cardinality(MatchingPositions(GivenTargets))
    /\ \A i \in 1..Len(last.fx.selected) :
         /\ KafkaPrefixed(last.fx.selected[i].name)
         /\ InSeq(last.fx.selected[i], GivenTargets)
    /\ \A k \in 1..Len(last.fx.scans) :
         /\ last.fx.scans[k] # ""
         /\ \E i \in MatchingPositions(GivenTargets) : GivenTargets[i].ip_address = last.fx.scans[k]
    /\ MatchingPositions(GivenTargets) = {} =>
         /\ ~last.raised
         /\ last.delta = NoDelta
         /\ last.fx.scans = <<>>
         /\ last.fx.results = <<>>

\* of a web machine and one named Kafka-2, only the second is scanned
C32_Witness ==
  /\ last.node = "execution"
  /\ Len(GivenTargets) = 2
  /\ Cardinality(MatchingPositions(GivenTargets)) = 1
  /\ Len(last.fx.scans) = 1
  /\ last.fx.selected[1].name[1] = "K"

Launches == CallsOf(last.fx.cloud, "create_vm_from_snapshot")
Snapshots == CallsOf(last.fx.cloud, "create_vm_snapshot")

\* C33: in a cloning fan-out every launch call comes after a snapshot call of
\* the same target that returned an id, is given that id and the id the step's
\* one network call returned; a target whose snapshot call failed gets no launch.
C33_SnapshotThenLaunch ==
  FanOutRan =>
    /\ \A j \in Launches :
         /\ \E i \in Snapshots :
              /\ i < j
              /\ last.fx.cloud[i].vm = last.fx.cloud[j].vm
              /\ last.fx.cloud[i].returned # NoId
              /\ last.fx.cloud[j].snapshot = last.fx.cloud[i].returned
         /\ last.fx.cloud[1].op = "create_isolated_network"
         /\ last.fx.cloud[1].returned # NoId
         /\ last.fx.cloud[j].network = last.fx.cloud[1].returned
    /\ \A i \in Snapshots :
         last.fx.cloud[i].returned = NoId =>
           \A j \in Launches : last.fx.cloud[j].vm # last.fx.cloud[i].vm

\* one target's snapshot failed and it was not launched; the other was launched from its snapshot
C33_Witness ==
  /\ FanOutRan
  /\ Cardinality(Snapshots) = 2
  /\ Cardinality(Launches) = 1
  /\ \E i \in Snapshots : last.fx.cloud[i].returned = NoId
  /\ \E j \in Launches : last.fx.cloud[j].snapshot = [image |-> last.fx.cloud[j].vm]

\* the analysis step could not read one of the reports it was given
ReportUnreadable ==
  /\ last.node = "analysis" /\ ~last.raised
  /\ EntriesTagged(MessagesOf(last.delta), {"Error reading report for"}) # {}
\* one of the clone units of the last step failed
SomeCloneFailed ==
  /\ FanOutRan
  /\ EntriesTagged(MessagesOf(last.delta), {"Failed to clone. Error:"}) # {}

\* C34: a step in which a clone unit failed, or in which a scan report could
\* not be read, returns an error_log entry for that failure: the delta's
\* error_log holds at least as many entries as there were such failures.
C34_EveryFailureInErrorLog ==
  /\ SomeCloneFailed =>
       Len(ErrorsOf(last.delta)) >=
         Cardinality(EntriesTagged(MessagesOf(last.delta), {"Failed to clone. Error:"}))
  /\ ReportUnreadable =>
       Len(ErrorsOf(last.delta)) >=
         Cardinality(EntriesTagged(MessagesOf(last.delta), {"Error reading report for"}))

NotificationWithoutDraft == last.node = "notification" /\ ~DraftPopulated(last.pre)
\* the value of an optional field, absent and None alike
Field(state, key) == Get(state, key, "None")

\* C35: a notification step that finds no drafted subject or body returns
\* exactly one error_log entry and one progress message and nothing else,
\* calls no transport, and leaves awaiting_acknowledgment and email_sent as
\* they were, in the run's state and in the checkpoint.
C35_NotificationWithoutDraft ==
  NotificationWithoutDraft =>
    /\ ~last.raised
    /\ Len(ErrorsOf(last.delta)) = 1
    /\ Len(MessagesOf(last.delta)) = 1
    /\ DOMAIN last.delta = {"error_log", "messages"}
    /\ last.fx.emails = <<>>
    /\ \A key \in {"awaiting_acknowledgment", "email_sent"} :
         /\ Field(run.st, key) = Field(last.pre, key)
         /\ Field(store[run.thread], key) = Field(last.pre, key)
    /\ Len(run.st["error_log"]) = Len(last.pre["error_log"]) + 1

\* approval arrived on a parked session that holds no draft: it stays parked
C35_Witness ==
  /\ NotificationWithoutDraft
  /\ Awaiting(last.pre)
  /\ Awaiting(store[run.thread])
  /\ run.pc = "END"

DraftFields == {"draft_email_subject", "draft_email_body", "draft_attachment_path"}
\* neither a checkpoint nor the running state is parked
NobodyParked == ~Awaiting(run.st) /\ \A t \in DOMAIN store : ~Awaiting(store[t])
\* what the last trigger or step wrote sets no approval flag and no draft
WritesNoSuspension ==
  /\ Get(last.delta, "awaiting_acknowledgment", FALSE) = FALSE
  /\ DOMAIN last.delta \cap DraftFields = {}
\* the notification step is entered only by a run that loaded a parked checkpoint
NotificationOnlyWhenParked ==
  /\ (last.node = "entry_router" /\ run.st["next_node"] = "send_notification") => Awaiting(last.pre)
  /\ (run.pc = "notification" \/ InSeq("notification", run.visited)) => run.wasAwaiting

CloneFields == {"vulnerable_vms", "report_id"}
HoldsCloneTargets(state) == Get(state, "vulnerable_vms", <<>>) # <<>>
\* neither a checkpoint nor the running state holds machines to clone
NoCloneTargets == ~HoldsCloneTargets(run.st) /\ \A t \in DOMAIN store : ~HoldsCloneTargets(store[t])
NotFoundError == Txt("Cloning Error: List of vulnerable VMs not found in state.", <<>>, "", 0)
\* a cloning step given no machines returns the not-found error and calls nothing
CloningFindsNothing ==
  (CloningRan /\ ~HoldsCloneTargets(last.pre)) =>
    /\ ~last.raised
    /\ last.delta = [error_log |-> <<NotFoundError>>, messages |-> <<Msg(NotFoundError)>>]
    /\ last.fx.cloud = <<>>

BodyRenderingFailed ==
  AnalysisFailed /\ ErrorsOf(last.delta)[1].detail = "KeyError: acknowledgment_link"

AnalysedCount(tick) == MessagesOf(tick.delta)[1][2].n
AnalysedSomething(tick) ==
  /\ tick.node = "analysis" /\ ~tick.raised
  /\ Get(tick.pre, "scan_results", <<>>) # <<>>

\* C39: a run starts from the scan_results its session has accumulated; every
\* step leaves them in place and only appends what it returns; and the analysis
\* step processes all of them, the earlier runs' outcomes followed by this
\* run's, each entry counted (no de-duplication), also when this run added none.
C39_ScanResultsAccumulate ==
  [][/\ last'.node = "input" =>
          run'.st["scan_results"] = Get(Load(run'.thread), "scan_results", <<>>)
     /\ (last'.node \in Nodes /\ ~last'.raised) =>
          /\ last'.pre["scan_results"] = run.st["scan_results"]
          /\ run'.st["scan_results"] = run.st["scan_results"] \o Get(last'.delta, "scan_results", <<>>)
          /\ store'[run'.thread]["scan_results"] = run'.st["scan_results"]
     /\ AnalysedSomething(last') =>
          AnalysedCount(last') = Len(run.st["scan_results"])]_vars

\* the same machine was scanned in an earlier run and in this one: both reports are analysed
C39_Witness ==
  /\ AnalysedSomething(last)
  /\ InSeq("execution", run.visited)
  /\ \E i, j \in 1..Len(last.pre["scan_results"]) :
       i < j /\ last.pre["scan_results"][i]["vm_name"] = last.pre["scan_results"][j]["vm_name"]
  /\ AnalysedCount(last) = Len(last.pre["scan_results"])
  /\ AnalysedCount(last) >= 2

\* the notification step called the transport
TransportCalled == NotificationRan /\ last.cfg = "recipients"

====
